---- MODULE Spec2Model ----
(***************************************************************************)
(* State-machine model of peekaboo/sample.py (class Sample) together with  *)
(* the collaborators it calls: the connection map, the transport socket,   *)
(* the file system and the MIME sniffers.                                  *)
(***************************************************************************)
EXTENDS Integers, Sequences, FiniteSets, TLC

(* ------------------------------------------------------------------ *)
(* Universe                                                           *)
(* ------------------------------------------------------------------ *)
None == "None"

Samples == {"s1", "s2"}
Sockets == {"sock1"}
Workers == {"w1", "w2"}

\* file_path handed to Sample.__init__ for each sample object
file_path == [s \in Samples |-> IF s = "s1" THEN "/amavis/j7/p001" ELSE "/in/smime.p7s"]

\* os.path.basename
Basename(p) == IF p = "/amavis/j7/p001" THEN "p001" ELSE "smime.p7s"

\* declared metadata a client may send (None = JSON null / field missing)
NamesDeclared == {None, "smime.p7s", "a.txt"}
TypesDeclared == {None, "text/plain", "application/pkcs7-signature"}

\* contents the file at file_path may have, now or after it is rewritten
Contents == {"c1", "c2", "c3"}

\* attribute keys of the Sample.__attributes dictionary used by this module
MetaKeys == {"meta_info_name_declared", "meta_info_type_declared"}
CacheKeys == {"sha256sum", "file_extension", "mimetypes", "file_stat", "analyses_time"}
Keys == MetaKeys \cup CacheKeys \cup {"rule_results"}

(* ------------------------------------------------------------------ *)
(* Bounds                                                             *)
(* ------------------------------------------------------------------ *)
MaxInitCalls == 2   \* init() invocations per sample
MaxCalls == 3       \* attribute-store / accessor invocations
MaxVerdicts == 3    \* add_rule_result invocations per sample
MaxReportCalls == 2 \* determine_result / report / submit_to_cuckoo invocations

VARIABLES
  constructed,     \* [Samples -> BOOLEAN]  Sample.__init__ has run
  socket,          \* self.__socket
  has_cmap,        \* self.__connection_map is not None
  attributes,      \* self.__attributes
  wd,              \* self.__wd
  submit_path,     \* self.__submit_path
  initialized,     \* self.initialized
  report,          \* self.__report
  result,          \* self.__result
  reason,          \* self.__reason
  job_id,          \* self.__cuckoo_job_id
  connection_map,  \* the shared connection map: socket -> set of samples
  sockClosed,      \* transport: has close() taken effect
  closeCalls,      \* transport: number of close() calls received
  sent,            \* transport: messages received through send()
  sendFailed,      \* transport: a send() has raised IOError (the pipe is broken)
  tmpdirs,         \* file system: working directories that exist
  symlinks,        \* file system: <<link path, target>> pairs that exist
  jobdirs,         \* file system: base_dir/<job hash> directories made by get_job_hash
  mkdtempCount,    \* file system: mkdtemp() calls made for each sample
  nextTmp,         \* mkdtemp unique suffix source
  nextJobHash,     \* next_job_hash() source
  rmtreeFailed,    \* file system: samples whose rmtree raised OSError
  job_hash_regex,  \* self.__job_hash_regex
  cuckooJobs,      \* sandbox: submissions accepted, in order
  nextJob,         \* sandbox: next job identifier
  keep_mail_data,  \* self.__keep_mail_data
  fileContent,     \* file system: content of the file at file_path
  ipc,             \* position of each worker inside init() of each sample
  rpc,             \* position of the thread running remove_from_connection_map
  initCalls,       \* number of init() invocations started per sample
  ret,             \* outcome of the latest attribute-store / accessor call
  nCalls,          \* number of attribute-store / accessor calls so far
  computed         \* per sample and cache key: expensive computations performed

vars == <<constructed, socket, has_cmap, attributes, wd, submit_path, initialized,
          report, result, reason, job_id, connection_map, sockClosed, closeCalls, sent,
          sendFailed, tmpdirs, symlinks, jobdirs, mkdtempCount, nextTmp, nextJobHash,
          rmtreeFailed, job_hash_regex, cuckooJobs, nextJob,
          keep_mail_data, fileContent, ipc, rpc, initCalls, ret, nCalls,
          computed>>

sampleVars == <<constructed, socket, has_cmap, keep_mail_data, attributes, wd, submit_path,
                initialized, report, result, reason, job_id>>
sockVars == <<sockClosed, closeCalls, sent, sendFailed>>
fsVars == <<tmpdirs, symlinks, jobdirs, mkdtempCount, nextTmp, nextJobHash, rmtreeFailed>>
cuckooVars == <<cuckooJobs, nextJob>>
envVars == <<fileContent, job_hash_regex, cuckooVars>>
callVars == <<ret, nCalls, computed>>

(* ------------------------------------------------------------------ *)
(* ruleset.Result                                                     *)
(* ------------------------------------------------------------------ *)
\* unchecked < clean < suspicious < malicious < failed
unchecked == 0
clean == 1
suspicious == 2
malicious == 3
failed == 4
Results == {unchecked, clean, suspicious, malicious, failed}

(* ------------------------------------------------------------------ *)
(* Attribute dictionary                                               *)
(* ------------------------------------------------------------------ *)
EmptyAttrs == [k \in {} |-> None]

DictSet(a, k, v) == [x \in DOMAIN a \cup {k} |-> IF x = k THEN v ELSE a[x]]

DictDel(a, k) == [x \in DOMAIN a \ {k} |-> a[x]]

\* Sample.has_attr
has_attr(a, k) == k \in DOMAIN a

\* the loop over metainfo in Sample.__init__: None values are dropped
MetaAttrs(nameDecl, typeDecl) ==
  LET a1 == IF nameDecl # None
            THEN DictSet(EmptyAttrs, "meta_info_name_declared", nameDecl)
            ELSE EmptyAttrs
  IN IF typeDecl # None THEN DictSet(a1, "meta_info_type_declared", typeDecl) ELSE a1

(* ------------------------------------------------------------------ *)
(* Connection map (add / remove / has_connection)                     *)
(* ------------------------------------------------------------------ *)
CMapAdd(m, k, s) == [m EXCEPT ![k] = @ \cup {s}]

CMapRemove(m, k, s) == [m EXCEPT ![k] = @ \ {s}]

CMapHasConnection(m, k) == k \in DOMAIN m /\ m[k] # {}

(* ------------------------------------------------------------------ *)
(* Initial state: no Sample object exists yet                         *)
(* ------------------------------------------------------------------ *)
\* outcome of a call: operation, receiver, key, value passed or returned,
\* override argument, exception raised, whether a memoized value was served
MkRet(op, s, k, v, ov, e, c) ==
  [op |-> op, sample |-> s, key |-> k, val |-> v, override |-> ov, exc |-> e, cached |-> c]

NoRet == MkRet("none", None, None, None, TRUE, None, FALSE)

\* job hash patterns an installation may configure; the first is the default
DefaultRegex == "/amavis/([^/]+)/.*"
Regexes == {DefaultRegex, "amavis/([^/]+)/", "(.*)"}

InitCommon ==
  /\ wd = [s \in Samples |-> None]
  /\ submit_path = [s \in Samples |-> None]
  /\ initialized = [s \in Samples |-> FALSE]
  /\ report = [s \in Samples |-> << >>]
  /\ result = [s \in Samples |-> unchecked]
  /\ reason = [s \in Samples |-> None]
  /\ job_id = [s \in Samples |-> -1]
  /\ sockClosed = [k \in Sockets |-> FALSE]
  /\ closeCalls = [k \in Sockets |-> 0]
  /\ sent = [k \in Sockets |-> << >>]
  /\ sendFailed = [k \in Sockets |-> FALSE]
  /\ tmpdirs = {}
  /\ symlinks = {}
  /\ jobdirs = {}
  /\ mkdtempCount = [s \in Samples |-> 0]
  /\ nextTmp = 1
  /\ nextJobHash = 1
  /\ rmtreeFailed = {}
  /\ cuckooJobs = << >>
  /\ nextJob = 1
  /\ fileContent = [s \in Samples |-> "c1"]
  /\ ipc = [s \in Samples |-> [w \in Workers |-> "idle"]]
  /\ rpc = [s \in Samples |-> "idle"]
  /\ initCalls = [s \in Samples |-> 0]
  /\ ret = NoRet
  /\ nCalls = 0
  /\ computed = [s \in Samples |-> [k \in CacheKeys |-> 0]]

Init ==
  /\ InitCommon
  /\ constructed = [s \in Samples |-> FALSE]
  /\ socket = [s \in Samples |-> None]
  /\ has_cmap = [s \in Samples |-> FALSE]
  /\ keep_mail_data = [s \in Samples |-> FALSE]
  /\ attributes = [s \in Samples |-> EmptyAttrs]
  /\ connection_map = [k \in Sockets |-> {}]
  /\ job_hash_regex = DefaultRegex

\* Sample.__init__
Construct(s, cmap, sock, keep, nameDecl, typeDecl) ==
  /\ ~constructed[s]
  /\ constructed' = [constructed EXCEPT ![s] = TRUE]
  /\ socket' = [socket EXCEPT ![s] = sock]
  /\ has_cmap' = [has_cmap EXCEPT ![s] = cmap]
  /\ keep_mail_data' = [keep_mail_data EXCEPT ![s] = keep]
  /\ connection_map' = IF cmap /\ sock # None
                       THEN CMapAdd(connection_map, sock, s)
                       ELSE connection_map
  /\ attributes' = [attributes EXCEPT ![s] = MetaAttrs(nameDecl, typeDecl)]
  /\ UNCHANGED <<wd, submit_path, initialized, report, result, reason, job_id>>
  /\ UNCHANGED <<sockVars, fsVars, envVars, callVars, ipc, rpc, initCalls>>

(* ------------------------------------------------------------------ *)
(* External pure functions                                            *)
(* ------------------------------------------------------------------ *)
\* os.path.splitext(filename)[1][1:]
Splitext(fn) == CASE fn = "smime.p7s" -> "p7s"
                  [] fn = "a.txt" -> "txt"
                  [] OTHER -> ""

\* hashlib.sha256(f.read()).hexdigest()
Sha256(c) == "sha-" \o c

\* os.stat(path)
OsStat(c) == [st_size |-> CASE c = "c1" -> 10 [] c = "c2" -> 20 [] OTHER -> 30]

\* datetime.now().strftime("%Y%m%dT%H%M%S")
Strftime(t) == "20190101T00000" \o ToString(t)

\* guess_mime_type_from_file_contents
guess_mime_type_from_file_contents(c) ==
  CASE c = "c1" -> "application/octet-stream"
    [] c = "c2" -> "text/plain"
    [] OTHER -> None

\* guess_mime_type_from_filename
guess_mime_type_from_filename(fn) ==
  CASE fn = "smime.p7s" -> "application/pkcs7-signature"
    [] fn = "a.txt" -> "text/plain"
    [] OTHER -> None

\* re.search(rx, p).group(1), or None when rx matches nowhere in p
ReSearchGroup(rx, p) ==
  CASE rx = "(.*)" -> p
    [] p = "/amavis/j7/p001" -> "j7"
    [] OTHER -> None

\* re.sub(rx, r'\1', p): every match of rx in p is replaced by its group
ReSub(rx, p) ==
  CASE rx = "/amavis/([^/]+)/.*" /\ p = "/amavis/j7/p001" -> "j7"
    [] rx = "amavis/([^/]+)/" /\ p = "/amavis/j7/p001" -> "/j7p001"
    [] OTHER -> p

\* re.sub(job_hash_regex, r'\1', path)
JobHashSub(p) == ReSub(job_hash_regex, p)

leave_alone_types == {"application/pkcs7-signature", "application/x-pkcs7-signature",
                      "application/pkcs7-mime", "application/x-pkcs7-mime"}

(* ------------------------------------------------------------------ *)
(* Memoized properties.  Each yields the value returned, the attribute *)
(* dictionary afterwards, whether the value came from the cache and    *)
(* whether the expensive computation ran.                              *)
(* ------------------------------------------------------------------ *)
Cached(a, v) == [val |-> v, attrs |-> a, cached |-> TRUE, comp |-> FALSE]

Fresh(a, k, v, c) == [val |-> v, attrs |-> DictSet(a, k, v), cached |-> FALSE, comp |-> c]

\* sha256sum that reads and hashes the file on every access
sha256sum_recompute(s, a, content) == Fresh(a, "sha256sum", Sha256(content), TRUE)

\* Sample.sha256sum
sha256sum(s, a, content) ==
  IF ~has_attr(a, "sha256sum")
  THEN Fresh(a, "sha256sum", Sha256(content), TRUE)
  ELSE Cached(a, a["sha256sum"])

\* declared name if present, else the raw file name
DeclaredFilename(s, a) ==
  IF has_attr(a, "meta_info_name_declared")
  THEN a["meta_info_name_declared"]
  ELSE Basename(file_path[s])

\* Sample.file_extension
file_extension(s, a) ==
  IF has_attr(a, "file_extension")
  THEN Cached(a, a["file_extension"])
  ELSE Fresh(a, "file_extension", Splitext(DeclaredFilename(s, a)), TRUE)

\* mimetypes without the S/MIME exception
mimetypes_noException(s, a, content) ==
  IF has_attr(a, "mimetypes")
  THEN Cached(a, a["mimetypes"])
  ELSE LET declared_mt == IF has_attr(a, "meta_info_type_declared")
                          THEN a["meta_info_type_declared"] ELSE None
           mt0 == IF declared_mt # None THEN {declared_mt} ELSE {}
           content_based == guess_mime_type_from_file_contents(content)
           name_based == guess_mime_type_from_filename(DeclaredFilename(s, a))
           mt1 == IF content_based # None THEN mt0 \cup {content_based} ELSE mt0
           mt2 == IF name_based # None THEN mt1 \cup {name_based} ELSE mt1
       IN Fresh(a, "mimetypes", mt2, TRUE)

\* mimetypes that sniffs the raw file name instead of the declared name
mimetypes_rawName(s, a, content) ==
  IF has_attr(a, "mimetypes")
  THEN Cached(a, a["mimetypes"])
  ELSE LET declared_mt == IF has_attr(a, "meta_info_type_declared")
                          THEN a["meta_info_type_declared"] ELSE None
           mt0 == IF declared_mt # None THEN {declared_mt} ELSE {}
           declared_filename == DeclaredFilename(s, a)
           content_based == guess_mime_type_from_file_contents(content)
           name_based == guess_mime_type_from_filename(Basename(file_path[s]))
           mt1 == IF content_based # None THEN mt0 \cup {content_based} ELSE mt0
           mt2 == IF name_based # None THEN mt1 \cup {name_based} ELSE mt1
       IN IF declared_filename = "smime.p7s" /\ declared_mt \in leave_alone_types
          THEN Fresh(a, "mimetypes", {declared_mt}, FALSE)
          ELSE Fresh(a, "mimetypes", mt2, TRUE)

\* Sample.mimetypes
mimetypes(s, a, content) ==
  IF has_attr(a, "mimetypes")
  THEN Cached(a, a["mimetypes"])
  ELSE LET declared_mt == IF has_attr(a, "meta_info_type_declared")
                          THEN a["meta_info_type_declared"] ELSE None
           mt0 == IF declared_mt # None THEN {declared_mt} ELSE {}
           declared_filename == DeclaredFilename(s, a)
           content_based == guess_mime_type_from_file_contents(content)
           name_based == guess_mime_type_from_filename(declared_filename)
           mt1 == IF content_based # None THEN mt0 \cup {content_based} ELSE mt0
           mt2 == IF name_based # None THEN mt1 \cup {name_based} ELSE mt1
       IN IF declared_filename = "smime.p7s" /\ declared_mt \in leave_alone_types
          THEN Fresh(a, "mimetypes", {declared_mt}, FALSE)
          ELSE Fresh(a, "mimetypes", mt2, TRUE)

\* Sample.file_size
file_size(s, a, content) ==
  IF ~has_attr(a, "file_stat")
  THEN [val |-> OsStat(content).st_size, attrs |-> DictSet(a, "file_stat", OsStat(content)),
        cached |-> FALSE, comp |-> TRUE]
  ELSE Cached(a, a["file_stat"].st_size)

\* Sample.analyses_time
analyses_time(s, a, now) ==
  IF ~has_attr(a, "analyses_time")
  THEN Fresh(a, "analyses_time", Strftime(now), TRUE)
  ELSE Cached(a, a["analyses_time"])

\* bookkeeping of expensive computations
Bump(c, s, k, r) == IF r.comp THEN [c EXCEPT ![s][k] = @ + 1] ELSE c

(* ------------------------------------------------------------------ *)
(* Transport                                                          *)
(* ------------------------------------------------------------------ *)
\* Sample.__send_message: an IOError of socket.send is caught and logged
SendMessage(tx, k, msg, ok) ==
  IF k = None THEN tx
  ELSE IF ok /\ ~sockClosed[k] THEN [tx EXCEPT ![k] = Append(@, msg)]
  ELSE tx

\* whether some message handed to the transport k was lost, after one more send
SendLost(lost, k, ok) ==
  IF k = None THEN lost
  ELSE IF ok /\ ~sockClosed[k] THEN lost
  ELSE [lost EXCEPT ![k] = TRUE]

(* ------------------------------------------------------------------ *)
(* Sample.init, as the steps a worker thread takes                    *)
(* ------------------------------------------------------------------ *)
\* init() that does not test the initialized flag
InitCheck_noFlag(w, s) ==
  /\ constructed[s]
  /\ ipc[s][w] = "idle"
  /\ initCalls[s] < MaxInitCalls
  /\ initCalls' = [initCalls EXCEPT ![s] = @ + 1]
  /\ ipc' = [ipc EXCEPT ![s][w] = "fs"]
  /\ UNCHANGED <<sampleVars, connection_map, sockVars, fsVars, envVars, callVars, rpc>>

\* line 124-125: test of the initialized flag
InitCheck(w, s) ==
  /\ constructed[s]
  /\ ipc[s][w] = "idle"
  /\ initCalls[s] < MaxInitCalls
  /\ initCalls' = [initCalls EXCEPT ![s] = @ + 1]
  /\ ipc' = IF initialized[s] THEN ipc ELSE [ipc EXCEPT ![s][w] = "fs"]
  /\ UNCHANGED <<sampleVars, connection_map, sockVars, fsVars, envVars, callVars, rpc>>

\* Sample.get_job_hash: the hash, and whether a directory was made for it
get_job_hash(s) ==
  LET sub == JobHashSub(file_path[s])
  IN IF sub = file_path[s]
     THEN [hash |-> "g" \o ToString(nextJobHash), fresh |-> TRUE]
     ELSE [hash |-> sub, fresh |-> FALSE]

\* line 132-145: working directory, symlink, flag
InitFs(w, s) ==
  /\ ipc[s][w] = "fs"
  /\ LET ext == file_extension(s, attributes[s])
         jh == get_job_hash(s)
         dir == jh.hash \o "-tmp" \o ToString(nextTmp)
         sha == sha256sum(s, ext.attrs, fileContent[s])
         link == dir \o "/" \o sha.val \o "." \o ext.val
     IN IF ext.val # ""
        THEN /\ wd' = [wd EXCEPT ![s] = dir]
             /\ submit_path' = [submit_path EXCEPT ![s] = link]
             /\ attributes' = [attributes EXCEPT ![s] = sha.attrs]
             /\ computed' = Bump(Bump(computed, s, "file_extension", ext), s, "sha256sum", sha)
             /\ tmpdirs' = tmpdirs \cup {dir}
             /\ mkdtempCount' = [mkdtempCount EXCEPT ![s] = @ + 1]
             /\ nextTmp' = nextTmp + 1
             /\ symlinks' = symlinks \cup {<<link, file_path[s]>>}
             /\ jobdirs' = IF jh.fresh THEN jobdirs \cup {jh.hash} ELSE jobdirs
             /\ nextJobHash' = IF jh.fresh THEN nextJobHash + 1 ELSE nextJobHash
             /\ UNCHANGED rmtreeFailed
        ELSE /\ submit_path' = [submit_path EXCEPT ![s] = file_path[s]]
             /\ attributes' = [attributes EXCEPT ![s] = ext.attrs]
             /\ computed' = Bump(computed, s, "file_extension", ext)
             /\ UNCHANGED <<wd, fsVars>>
  /\ initialized' = [initialized EXCEPT ![s] = TRUE]
  /\ ipc' = [ipc EXCEPT ![s][w] = "report"]
  /\ UNCHANGED <<constructed, socket, has_cmap, keep_mail_data, job_id, report, result, reason>>
  /\ UNCHANGED <<connection_map, sockVars, envVars, ret, nCalls, rpc, initCalls>>

\* the end of init() that sends the metadata lines as well
InitReport_sendsMeta(w, s) ==
  /\ ipc[s][w] = "report"
  /\ LET sha == sha256sum(s, attributes[s], fileContent[s])
         a == sha.attrs
         message == <<"wird analysiert", Basename(file_path[s]), sha.val>>
         m1 == IF has_attr(a, "meta_info_name_declared")
               THEN << <<"meta info: name_declared", a["meta_info_name_declared"]>> >>
               ELSE << >>
         m2 == IF has_attr(a, "meta_info_type_declared")
               THEN << <<"meta info: type_declared", a["meta_info_type_declared"]>> >>
               ELSE << >>
         lines == <<message>> \o m1 \o m2
     IN /\ attributes' = [attributes EXCEPT ![s] = a]
        /\ computed' = Bump(computed, s, "sha256sum", sha)
        /\ report' = [report EXCEPT ![s] = @ \o lines]
        /\ \E ok \in BOOLEAN :
             /\ sent' = IF socket[s] # None /\ ok /\ ~sockClosed[socket[s]]
                        THEN [sent EXCEPT ![socket[s]] = @ \o lines]
                        ELSE sent
             /\ sendFailed' = SendLost(sendFailed, socket[s], ok)
  /\ ipc' = [ipc EXCEPT ![s][w] = "idle"]
  /\ UNCHANGED <<constructed, socket, has_cmap, keep_mail_data, job_id, wd, submit_path, initialized, result, reason>>
  /\ UNCHANGED <<connection_map, sockClosed, closeCalls, fsVars, envVars, ret, nCalls, rpc, initCalls>>

\* line 147-159: preamble of the report
InitReport(w, s) ==
  /\ ipc[s][w] = "report"
  /\ \E ok \in BOOLEAN :
       LET sha == sha256sum(s, attributes[s], fileContent[s])
           a == sha.attrs
           message == <<"wird analysiert", Basename(file_path[s]), sha.val>>
           r1 == Append(report[s], message)
           r2 == IF has_attr(a, "meta_info_name_declared")
                 THEN Append(r1, <<"meta info: name_declared", a["meta_info_name_declared"]>>)
                 ELSE r1
           r3 == IF has_attr(a, "meta_info_type_declared")
                 THEN Append(r2, <<"meta info: type_declared", a["meta_info_type_declared"]>>)
                 ELSE r2
       IN /\ attributes' = [attributes EXCEPT ![s] = a]
          /\ computed' = Bump(computed, s, "sha256sum", sha)
          /\ report' = [report EXCEPT ![s] = r3]
          /\ sent' = SendMessage(sent, socket[s], message, ok)
          /\ sendFailed' = SendLost(sendFailed, socket[s], ok)
  /\ ipc' = [ipc EXCEPT ![s][w] = "idle"]
  /\ UNCHANGED <<constructed, socket, has_cmap, keep_mail_data, job_id, wd, submit_path, initialized, result, reason>>
  /\ UNCHANGED <<connection_map, sockClosed, closeCalls, fsVars, envVars, ret, nCalls, rpc, initCalls>>

(* ------------------------------------------------------------------ *)
(* Sample.remove_from_connection_map, as the steps of its thread      *)
(* ------------------------------------------------------------------ *)
\* line 234-237: de-register from the connection map
RemoveDetach(s) ==
  /\ constructed[s]
  /\ rpc[s] = "idle"
  /\ IF has_cmap[s]
     THEN /\ connection_map' = IF socket[s] # None
                               THEN CMapRemove(connection_map, socket[s], s)
                               ELSE connection_map
          /\ rpc' = [rpc EXCEPT ![s] = "query"]
     ELSE /\ rpc' = [rpc EXCEPT ![s] = "done"]
          /\ UNCHANGED connection_map
  /\ UNCHANGED <<sampleVars, sockVars, fsVars, envVars, callVars, ipc, initCalls>>

\* line 239: the emptiness query
RemoveQuery(s) ==
  /\ rpc[s] = "query"
  /\ rpc' = [rpc EXCEPT ![s] = IF ~CMapHasConnection(connection_map, socket[s])
                                THEN "cleanup" ELSE "done"]
  /\ UNCHANGED <<sampleVars, connection_map, sockVars, fsVars, envVars, callVars, ipc, initCalls>>

\* __cleanup_temp_files that lets the OSError of rmtree escape: it leaves
\* remove_from_connection_map before the transport is closed
RemoveCleanup_raises(s) ==
  /\ rpc[s] = "cleanup"
  /\ \E ok \in BOOLEAN :
       IF wd[s] = None \/ keep_mail_data[s]
       THEN /\ ok
            /\ rpc' = [rpc EXCEPT ![s] = "close"]
            /\ UNCHANGED <<tmpdirs, symlinks, rmtreeFailed>>
       ELSE IF ok
            THEN /\ tmpdirs' = tmpdirs \ {wd[s]}
                 /\ symlinks' = {l \in symlinks : l[1] # submit_path[s]}
                 /\ rpc' = [rpc EXCEPT ![s] = "close"]
                 /\ UNCHANGED rmtreeFailed
            ELSE /\ rmtreeFailed' = rmtreeFailed \cup {s}
                 /\ rpc' = [rpc EXCEPT ![s] = "raised"]
                 /\ UNCHANGED <<tmpdirs, symlinks>>
  /\ UNCHANGED <<jobdirs, mkdtempCount, nextTmp, nextJobHash>>
  /\ UNCHANGED <<sampleVars, connection_map, sockVars, envVars, callVars, ipc, initCalls>>

\* line 240, Sample.__cleanup_temp_files: an OSError of rmtree is caught and logged
RemoveCleanup(s) ==
  /\ rpc[s] = "cleanup"
  /\ \E ok \in BOOLEAN :
       IF wd[s] = None \/ keep_mail_data[s]
       THEN ok /\ UNCHANGED <<tmpdirs, symlinks, rmtreeFailed>>
       ELSE IF ok
            THEN /\ tmpdirs' = tmpdirs \ {wd[s]}
                 /\ symlinks' = {l \in symlinks : l[1] # submit_path[s]}
                 /\ UNCHANGED rmtreeFailed
            ELSE /\ rmtreeFailed' = rmtreeFailed \cup {s}
                 /\ UNCHANGED <<tmpdirs, symlinks>>
  /\ rpc' = [rpc EXCEPT ![s] = "close"]
  /\ UNCHANGED <<jobdirs, mkdtempCount, nextTmp, nextJobHash>>
  /\ UNCHANGED <<sampleVars, connection_map, sockVars, envVars, callVars, ipc, initCalls>>

\* line 241, Sample.__close_socket: an EnvironmentError of close is caught and logged
RemoveClose(s) ==
  /\ rpc[s] = "close"
  /\ \E ok \in BOOLEAN :
       IF socket[s] = None
       THEN ok /\ UNCHANGED <<sockClosed, closeCalls>>
       ELSE /\ closeCalls' = [closeCalls EXCEPT ![socket[s]] = @ + 1]
            /\ sockClosed' = [sockClosed EXCEPT ![socket[s]] = @ \/ ok]
  /\ rpc' = [rpc EXCEPT ![s] = "done"]
  /\ UNCHANGED <<sampleVars, connection_map, sent, sendFailed, fsVars, envVars, callVars, ipc, initCalls>>

(* ------------------------------------------------------------------ *)
(* Specification of the connection life cycle: Samples are created,   *)
(* initialized by a worker and de-registered, in any interleaving.    *)
(* ------------------------------------------------------------------ *)
ConnConstruct ==
  \E s \in Samples, cmap \in BOOLEAN, sock \in Sockets \cup {None}, keep \in BOOLEAN,
     n \in NamesDeclared : Construct(s, cmap, sock, keep, n, None)

ConnInitCheck == \E s \in Samples : InitCheck("w1", s)

ConnInitFs == \E s \in Samples : InitFs("w1", s)

ConnInitReport == \E s \in Samples : InitReport("w1", s)

DoRemoveDetach == \E s \in Samples : RemoveDetach(s)

DoRemoveQuery == \E s \in Samples : RemoveQuery(s)

DoRemoveCleanup == \E s \in Samples : RemoveCleanup(s)

DoRemoveClose == \E s \in Samples : RemoveClose(s)

NextConn ==
  \/ ConnConstruct
  \/ ConnInitCheck
  \/ ConnInitFs
  \/ ConnInitReport
  \/ DoRemoveDetach
  \/ DoRemoveQuery
  \/ DoRemoveCleanup
  \/ DoRemoveClose

SpecConn == Init /\ [][NextConn]_vars

(* ------------------------------------------------------------------ *)
(* Specification of teardown: every Sample of one request has been    *)
(* constructed on the same connection; workers initialize and         *)
(* de-register them concurrently.                                     *)
(* ------------------------------------------------------------------ *)
InitAttached ==
  /\ InitCommon
  /\ constructed = [s \in Samples |-> TRUE]
  /\ socket = [s \in Samples |-> "sock1"]
  /\ has_cmap = [s \in Samples |-> TRUE]
  /\ keep_mail_data \in {[s \in Samples |-> b] : b \in BOOLEAN}
  /\ \E n \in [Samples -> NamesDeclared] :
       attributes = [s \in Samples |-> MetaAttrs(n[s], None)]
  /\ connection_map = [k \in Sockets |-> IF k = "sock1" THEN Samples ELSE {}]
  /\ job_hash_regex = DefaultRegex

NextTeardown ==
  \/ ConnInitCheck
  \/ ConnInitFs
  \/ ConnInitReport
  \/ DoRemoveDetach
  \/ DoRemoveQuery
  \/ DoRemoveCleanup
  \/ DoRemoveClose

SpecTeardown == InitAttached /\ [][NextTeardown]_vars

\* C1: over the life of a connection teardown happens exactly once: the
\* transport receives at most one close() and at most one Sample of the
\* connection ever enters the cleanup-and-close branch, whatever the
\* interleaving of the remove_from_connection_map calls of its Samples.
C1_TeardownOnce ==
  \A k \in Sockets :
    /\ closeCalls[k] <= 1
    /\ Cardinality({s \in Samples : socket[s] = k /\ rpc[s] \in {"cleanup", "close"}}) <= 1

\* C2: the transport of a connection is never closed while a Sample is
\* still attached to that connection.
C2_ClosedImpliesDetached ==
  \A k \in Sockets : sockClosed[k] => connection_map[k] = {}

(* ------------------------------------------------------------------ *)
(* Specification of initialization: Samples are created and two       *)
(* workers call init() on them, in any interleaving.                  *)
(* ------------------------------------------------------------------ *)
InitConstruct ==
  \E s \in Samples, sock \in Sockets \cup {None}, n \in NamesDeclared, t \in TypesDeclared :
     Construct(s, TRUE, sock, FALSE, n, t)

DoInitCheck == \E w \in Workers, s \in Samples : InitCheck(w, s)

DoInitFs == \E w \in Workers, s \in Samples : InitFs(w, s)

DoInitReport == \E w \in Workers, s \in Samples : InitReport(w, s)

NextInit ==
  \/ InitConstruct
  \/ DoInitCheck
  \/ DoInitFs
  \/ DoInitReport

SpecInit == Init /\ [][NextInit]_vars

\* the first line init() appends to the report
IsPreamble(m) == m[1] = "wird analysiert"

Preambles(s) == Len(SelectSeq(report[s], IsPreamble))

\* C3: an init() call that starts on an already initialized Sample returns
\* at once: it creates no working directory and no symlink, appends nothing to
\* the report, sends nothing and leaves workingDir and submitPath unchanged.
C3_SecondInitNoOp ==
  [][\A s \in Samples :
       (initialized[s] /\ initCalls'[s] # initCalls[s]) =>
          /\ ipc'[s] = ipc[s]
          /\ UNCHANGED <<tmpdirs, symlinks, jobdirs, mkdtempCount, sent>>
          /\ report'[s] = report[s]
          /\ wd'[s] = wd[s]
          /\ submit_path'[s] = submit_path[s]
          /\ initialized'[s]]_vars

\* two init() calls have completed on a Sample with an extension, and the
\* file-system work and the preamble were done once
C3_Witness ==
  \E s \in Samples :
    /\ initCalls[s] = 2
    /\ \A w \in Workers : ipc[s][w] = "idle"
    /\ initialized[s]
    /\ wd[s] # None
    /\ mkdtempCount[s] = 1
    /\ Preambles(s) = 1

\* C4: however two workers interleave their init() calls on one Sample, at
\* most one working directory is created for it and the preamble line is
\* appended at most once.
C4_InitOnceConcurrent ==
  \A s \in Samples : mkdtempCount[s] <= 1 /\ Preambles(s) <= 1

(* ------------------------------------------------------------------ *)
(* Attribute store and memoized properties, called by a client        *)
(* ------------------------------------------------------------------ *)
\* values a caller may store under each key
AttrVals(k) ==
  CASE k = "meta_info_name_declared" -> {"smime.p7s", "README"}
    [] k = "meta_info_type_declared" -> {None}
    [] k = "sha256sum" -> {"sha-set"}
    [] k = "file_extension" -> {"exe"}
    [] k = "mimetypes" -> {{"text/html"}}
    [] k = "file_stat" -> {[st_size |-> 99]}
    [] k = "analyses_time" -> {"19700101T000000"}
    [] OTHER -> {<< >>}

Called == nCalls' = nCalls + 1

\* Sample.get_attr
GetAttr(s, k) ==
  /\ constructed[s]
  /\ nCalls < MaxCalls
  /\ Called
  /\ ret' = IF has_attr(attributes[s], k)
            THEN MkRet("get_attr", s, k, attributes[s][k], TRUE, None, FALSE)
            ELSE MkRet("get_attr", s, k, None, TRUE, "KeyError", FALSE)
  /\ UNCHANGED <<sampleVars, connection_map, sockVars, fsVars, envVars, computed, ipc, rpc, initCalls>>

\* set_attr that ignores the override argument
SetAttr_ignoreOverride(s, k, v, override) ==
  /\ constructed[s]
  /\ nCalls < MaxCalls
  /\ Called
  /\ ret' = MkRet("set_attr", s, k, v, override, None, FALSE)
  /\ attributes' = [attributes EXCEPT ![s] = DictSet(@, k, v)]
  /\ UNCHANGED <<constructed, socket, has_cmap, keep_mail_data, job_id, wd, submit_path, initialized, report, result, reason>>
  /\ UNCHANGED <<connection_map, sockVars, fsVars, envVars, computed, ipc, rpc, initCalls>>

\* Sample.set_attr
SetAttr(s, k, v, override) ==
  /\ constructed[s]
  /\ nCalls < MaxCalls
  /\ Called
  /\ IF has_attr(attributes[s], k) /\ override = FALSE
     THEN /\ ret' = MkRet("set_attr", s, k, v, override, "KeyError", FALSE)
          /\ UNCHANGED attributes
     ELSE /\ ret' = MkRet("set_attr", s, k, v, override, None, FALSE)
          /\ attributes' = [attributes EXCEPT ![s] = DictSet(@, k, v)]
  /\ UNCHANGED <<constructed, socket, has_cmap, keep_mail_data, job_id, wd, submit_path, initialized, report, result, reason>>
  /\ UNCHANGED <<connection_map, sockVars, fsVars, envVars, computed, ipc, rpc, initCalls>>

\* Sample.remove_attr
RemoveAttr(s, k) ==
  /\ constructed[s]
  /\ nCalls < MaxCalls
  /\ Called
  /\ attributes' = IF k \in DOMAIN attributes[s]
                   THEN [attributes EXCEPT ![s] = DictDel(@, k)]
                   ELSE attributes
  /\ ret' = MkRet("remove_attr", s, k, None, TRUE, "ValueError", FALSE)
  /\ UNCHANGED <<constructed, socket, has_cmap, keep_mail_data, job_id, wd, submit_path, initialized, report, result, reason>>
  /\ UNCHANGED <<connection_map, sockVars, fsVars, envVars, computed, ipc, rpc, initCalls>>

\* a read of a memoized property by a client
Access(s, k, r) ==
  /\ constructed[s]
  /\ nCalls < MaxCalls
  /\ Called
  /\ ret' = MkRet(k, s, k, r.val, TRUE, None, r.cached)
  /\ attributes' = [attributes EXCEPT ![s] = r.attrs]
  /\ computed' = Bump(computed, s, k, r)
  /\ UNCHANGED <<constructed, socket, has_cmap, keep_mail_data, job_id, wd, submit_path, initialized, report, result, reason>>
  /\ UNCHANGED <<connection_map, sockVars, fsVars, envVars, ipc, rpc, initCalls>>

GetSha256sum(s) == Access(s, "sha256sum", sha256sum(s, attributes[s], fileContent[s]))

GetFileExtension(s) == Access(s, "file_extension", file_extension(s, attributes[s]))

GetMimetypes(s) == Access(s, "mimetypes", mimetypes(s, attributes[s], fileContent[s]))

GetFileSize(s) == Access(s, "file_stat", file_size(s, attributes[s], fileContent[s]))

\* datetime.now(): every call takes one unit of time
Now == nCalls

GetAnalysesTime(s) == Access(s, "analyses_time", analyses_time(s, attributes[s], Now))

\* environment: the file at file_path is rewritten
ChangeFile(s, c) ==
  /\ constructed[s]
  /\ fileContent[s] # c
  /\ fileContent' = [fileContent EXCEPT ![s] = c]
  /\ UNCHANGED <<sampleVars, connection_map, sockVars, fsVars, job_hash_regex, cuckooVars, callVars, ipc, rpc, initCalls>>

\* the Sample whose attribute store is exercised
AttrSamples == {"s2"}

AttrConstruct ==
  \E s \in AttrSamples, n \in NamesDeclared, t \in TypesDeclared :
     Construct(s, FALSE, None, FALSE, n, t)

DoGetAttr == \E s \in AttrSamples, k \in Keys : GetAttr(s, k)

DoSetAttr ==
  \E s \in AttrSamples, k \in Keys, override \in BOOLEAN :
    \E v \in AttrVals(k) : SetAttr(s, k, v, override)

DoRemoveAttr == \E s \in AttrSamples, k \in Keys : RemoveAttr(s, k)

DoGetSha256sum == \E s \in AttrSamples : GetSha256sum(s)

DoGetFileExtension == \E s \in AttrSamples : GetFileExtension(s)

DoGetMimetypes == \E s \in AttrSamples : GetMimetypes(s)

DoGetFileSize == \E s \in AttrSamples : GetFileSize(s)

DoGetAnalysesTime == \E s \in AttrSamples : GetAnalysesTime(s)

DoChangeFile == \E s \in AttrSamples, c \in Contents : ChangeFile(s, c)

NextAttr ==
  \/ AttrConstruct
  \/ DoGetAttr
  \/ DoSetAttr
  \/ DoRemoveAttr
  \/ DoGetSha256sum
  \/ DoGetFileExtension
  \/ DoGetMimetypes
  \/ DoGetFileSize
  \/ DoGetAnalysesTime
  \/ DoChangeFile

SpecAttr == Init /\ [][NextAttr]_vars

\* the step is a call of operation op on Sample s
IsCall(op, s) == nCalls' # nCalls /\ ret'.op = op /\ ret'.sample = s

\* declared type as Sample.mimetypes reads it
DeclaredType(a) ==
  IF has_attr(a, "meta_info_type_declared") THEN a["meta_info_type_declared"] ELSE None

\* the S/MIME exception applies to a Sample with attributes a
SmimeCase(s, a) ==
  DeclaredFilename(s, a) = "smime.p7s" /\ DeclaredType(a) \in leave_alone_types

\* C6: when the declared name (or, without one, the raw file name) is
\* smime.p7s and the declared type is on the PKCS#7 allow-list, a computing
\* read of mimetypes returns exactly {declared type}, whatever the sniffers
\* would say, and caches that set.
C6_SmimeException ==
  [][\A s \in Samples :
       (IsCall("mimetypes", s) /\ ~has_attr(attributes[s], "mimetypes")
          /\ SmimeCase(s, attributes[s])) =>
            /\ ret'.val = {DeclaredType(attributes[s])}
            /\ has_attr(attributes'[s], "mimetypes")
            /\ attributes'[s]["mimetypes"] = {DeclaredType(attributes[s])}]_vars

\* mimetypes was computed under the exception while the content sniffer
\* detects another type for the file
C6_Witness ==
  /\ ret.op = "mimetypes"
  /\ ~ret.cached
  /\ SmimeCase(ret.sample, attributes[ret.sample])
  /\ guess_mime_type_from_file_contents(fileContent[ret.sample]) = "application/octet-stream"
  /\ attributes[ret.sample]["mimetypes"] = {DeclaredType(attributes[ret.sample])}

\* C7: when the exception does not apply, a computing read of mimetypes
\* returns exactly the declared type (if any), the content-sniffed type of the
\* file (if any) and the name-sniffed type of the declared name (if any).
C7_MimeUnion ==
  [][\A s \in Samples :
       (IsCall("mimetypes", s) /\ ~has_attr(attributes[s], "mimetypes")
          /\ ~SmimeCase(s, attributes[s])) =>
            LET signals == {DeclaredType(attributes[s]),
                            guess_mime_type_from_file_contents(fileContent[s]),
                            guess_mime_type_from_filename(DeclaredFilename(s, attributes[s]))}
            IN /\ ret'.val = signals \ {None}
               /\ has_attr(attributes'[s], "mimetypes")
               /\ attributes'[s]["mimetypes"] = signals \ {None}]_vars

\* declared text/plain, content sniff application/octet-stream, no name sniff
C7_Witness ==
  /\ ret.op = "mimetypes"
  /\ ~ret.cached
  /\ DeclaredType(attributes[ret.sample]) = "text/plain"
  /\ guess_mime_type_from_file_contents(fileContent[ret.sample]) = "application/octet-stream"
  /\ guess_mime_type_from_filename(DeclaredFilename(ret.sample, attributes[ret.sample])) = None
  /\ ret.val = {"text/plain", "application/octet-stream"}

\* C8: set_attr(k, v, override=False) on an existing key raises KeyError and
\* changes no attribute; otherwise set_attr stores v under k and leaves the
\* other attributes alone.
C8_SetAttr ==
  [][\A s \in Samples :
       IsCall("set_attr", s) =>
         LET k == ret'.key
         IN IF k \in DOMAIN attributes[s] /\ ret'.override = FALSE
            THEN ret'.exc = "KeyError" /\ attributes' = attributes
            ELSE /\ ret'.exc = None
                 /\ k \in DOMAIN attributes'[s]
                 /\ attributes'[s][k] = ret'.val
                 /\ DOMAIN attributes'[s] = DOMAIN attributes[s] \cup {k}
                 /\ \A j \in DOMAIN attributes[s] \ {k} : attributes'[s][j] = attributes[s][j]]_vars

\* a non-overriding set_attr was refused and the stored value is still the
\* earlier one
C8_Witness ==
  /\ ret.op = "set_attr"
  /\ ret.exc = "KeyError"
  /\ ret.override = FALSE
  /\ ret.key = "file_extension"
  /\ attributes[ret.sample]["file_extension"] # ret.val

\* C9: remove_attr raises only when the key is absent: on a present key it
\* deletes the key and returns normally, on an absent key it raises and leaves
\* the store unchanged.
C9_RemoveRaisesOnlyIfAbsent ==
  [][\A s \in Samples :
       IsCall("remove_attr", s) =>
         IF ret'.key \in DOMAIN attributes[s]
         THEN ret'.exc = None /\ ret'.key \notin DOMAIN attributes'[s]
         ELSE ret'.exc = "ValueError" /\ attributes' = attributes]_vars

\* the value a memoized property returns for a cached entry
ServedValue(k, v) == IF k = "file_stat" THEN v.st_size ELSE v

\* C10: once the cache key of a memoized property is present, every read of
\* the property returns the stored value without any further computation, and
\* the stored value stays what it is until set_attr or remove_attr is called
\* on that key, whatever happens to the file, the metadata or the time of day.
C10_Memoized ==
  [][\A s \in Samples, k \in CacheKeys :
       has_attr(attributes[s], k) =>
          /\ IsCall(k, s) =>
                /\ ret'.val = ServedValue(k, attributes[s][k])
                /\ computed' = computed
                /\ attributes' = attributes
          /\ ~((IsCall("set_attr", s) \/ IsCall("remove_attr", s)) /\ ret'.key = k) =>
                /\ has_attr(attributes'[s], k)
                /\ attributes'[s][k] = attributes[s][k]]_vars

\* file_extension was computed from the declared name, the declared name was
\* then changed or removed, and the latest read still returned the first value
C10_Witness ==
  /\ ret.op = "file_extension"
  /\ ret.cached
  /\ computed[ret.sample]["file_extension"] = 1
  /\ ret.val = "txt"
  /\ Splitext(DeclaredFilename(ret.sample, attributes[ret.sample])) # "txt"

(* ------------------------------------------------------------------ *)
(* Verdict aggregation                                                *)
(* ------------------------------------------------------------------ *)
Reasons == {"reasonA", "reasonB"}
RuleResults == [result : Results, reason : Reasons]

\* Sample.add_rule_result
AddRuleResult(s, res) ==
  /\ constructed[s]
  /\ LET rule_results == IF has_attr(attributes[s], "rule_results")
                         THEN attributes[s]["rule_results"] ELSE << >>
     IN /\ Len(rule_results) < MaxVerdicts
        /\ attributes' = [attributes EXCEPT ![s] = DictSet(@, "rule_results", Append(rule_results, res))]
  /\ ret' = MkRet("add_rule_result", s, "rule_results", res, TRUE, None, FALSE)
  /\ UNCHANGED <<constructed, socket, has_cmap, keep_mail_data, job_id, wd, submit_path, initialized, report, result, reason>>
  /\ UNCHANGED <<connection_map, sockVars, fsVars, envVars, nCalls, computed, ipc, rpc, initCalls>>

\* the loop with a strict comparison: the first of equal verdicts wins
RECURSIVE DetermineLoop_strict(_, _, _, _)
DetermineLoop_strict(rs, i, res, rsn) ==
  IF i > Len(rs) THEN [result |-> res, reason |-> rsn]
  ELSE IF rs[i].result > res
       THEN DetermineLoop_strict(rs, i + 1, rs[i].result, rs[i].reason)
       ELSE DetermineLoop_strict(rs, i + 1, res, rsn)

\* the loop that forgets the reason at its start and lets only a strictly
\* worse verdict replace result and reason
DetermineLoop_clearReason(rs, i, res, rsn) == DetermineLoop_strict(rs, i, res, None)

\* the loop without the comparison: every verdict replaces the one before
RECURSIVE DetermineLoop_lastWins(_, _, _, _)
DetermineLoop_lastWins(rs, i, res, rsn) ==
  IF i > Len(rs) THEN [result |-> res, reason |-> rsn]
  ELSE DetermineLoop_lastWins(rs, i + 1, rs[i].result, rs[i].reason)

\* the loop of Sample.determine_result over the verdicts from position i on,
\* starting from the held result and reason
RECURSIVE DetermineLoop(_, _, _, _)
DetermineLoop(rs, i, res, rsn) ==
  IF i > Len(rs) THEN [result |-> res, reason |-> rsn]
  ELSE IF rs[i].result >= res
       THEN DetermineLoop(rs, i + 1, rs[i].result, rs[i].reason)
       ELSE DetermineLoop(rs, i + 1, res, rsn)

\* Sample.determine_result
DetermineResult(s) ==
  /\ constructed[s]
  /\ nCalls < MaxCalls
  /\ Called
  /\ IF has_attr(attributes[s], "rule_results")
     THEN LET r == DetermineLoop(attributes[s]["rule_results"], 1, result[s], reason[s])
          IN /\ result' = [result EXCEPT ![s] = r.result]
             /\ reason' = [reason EXCEPT ![s] = r.reason]
             /\ ret' = MkRet("determine_result", s, None, None, TRUE, None, FALSE)
     ELSE /\ ret' = MkRet("determine_result", s, None, None, TRUE, "KeyError", FALSE)
          /\ UNCHANGED <<result, reason>>
  /\ UNCHANGED <<constructed, socket, has_cmap, keep_mail_data, job_id, attributes, wd, submit_path, initialized, report>>
  /\ UNCHANGED <<connection_map, sockVars, fsVars, envVars, computed, ipc, rpc, initCalls>>

\* the Sample whose verdicts are aggregated
AggSamples == {"s1"}

AggConstruct ==
  \E s \in AggSamples, sock \in Sockets \cup {None} : Construct(s, TRUE, sock, FALSE, None, None)

DoAddRuleResult == \E s \in AggSamples, res \in RuleResults : AddRuleResult(s, res)

DoDetermineResult == \E s \in AggSamples : DetermineResult(s)

NextAgg ==
  \/ AggConstruct
  \/ DoAddRuleResult
  \/ DoDetermineResult

SpecAgg == Init /\ [][NextAgg]_vars

MaxOf(S) == CHOOSE m \in S : \A x \in S : x <= m

\* C5: determine_result on a fresh Sample with a non-empty verdict sequence
\* sets result to the maximum severity of the sequence and reason to the reason
\* of the last verdict that has that severity.
C5_MaxLastWins ==
  [][\A s \in Samples :
       (IsCall("determine_result", s) /\ result[s] = unchecked /\ reason[s] = None
          /\ has_attr(attributes[s], "rule_results")
          /\ Len(attributes[s]["rule_results"]) > 0) =>
            LET rs == attributes[s]["rule_results"]
                top == MaxOf({rs[i].result : i \in 1..Len(rs)})
                last == MaxOf({i \in 1..Len(rs) : rs[i].result = top})
            IN result'[s] = top /\ reason'[s] = rs[last].reason]_vars

\* [clean, malicious, suspicious] was aggregated to malicious with the
\* reason of the malicious verdict
C5_Witness ==
  \E s \in Samples :
    /\ ret.op = "determine_result"
    /\ has_attr(attributes[s], "rule_results")
    /\ attributes[s]["rule_results"] =
         << [result |-> clean, reason |-> "reasonA"],
            [result |-> malicious, reason |-> "reasonB"],
            [result |-> suspicious, reason |-> "reasonA"] >>
    /\ result[s] = malicious
    /\ reason[s] = "reasonB"

(* ------------------------------------------------------------------ *)
(* Job hash                                                           *)
(* ------------------------------------------------------------------ *)
\* Sample.get_job_hash called by a client
GetJobHash(s) ==
  /\ constructed[s]
  /\ nCalls < MaxCalls
  /\ Called
  /\ LET jh == get_job_hash(s)
     IN /\ ret' = MkRet("get_job_hash", s, None, jh.hash, TRUE, None, FALSE)
        /\ jobdirs' = IF jh.fresh THEN jobdirs \cup {jh.hash} ELSE jobdirs
        /\ nextJobHash' = IF jh.fresh THEN nextJobHash + 1 ELSE nextJobHash
  /\ UNCHANGED <<tmpdirs, symlinks, mkdtempCount, nextTmp, rmtreeFailed>>
  /\ UNCHANGED <<sampleVars, connection_map, sockVars, envVars, computed, ipc, rpc, initCalls>>

\* the installation may be configured with any of the patterns
InitJob ==
  /\ InitCommon
  /\ constructed = [s \in Samples |-> FALSE]
  /\ socket = [s \in Samples |-> None]
  /\ has_cmap = [s \in Samples |-> FALSE]
  /\ keep_mail_data = [s \in Samples |-> FALSE]
  /\ attributes = [s \in Samples |-> EmptyAttrs]
  /\ connection_map = [k \in Sockets |-> {}]
  /\ job_hash_regex \in Regexes

JobConstruct ==
  \E s \in Samples, n \in NamesDeclared : Construct(s, FALSE, None, FALSE, n, None)

DoGetJobHash == \E s \in Samples : GetJobHash(s)

NextJob ==
  \/ JobConstruct
  \/ DoGetJobHash
  \/ ConnInitCheck
  \/ ConnInitFs
  \/ ConnInitReport

SpecJob == InitJob /\ [][NextJob]_vars

\* C11: get_job_hash has two modes: for a path the configured pattern
\* matches it returns the captured group and creates no directory; for a path
\* the pattern does not match it returns a fresh hash and creates the directory
\* of that hash, which did not exist before.
C11_JobHashModes ==
  [][\A s \in Samples :
       IsCall("get_job_hash", s) =>
         LET g == ReSearchGroup(job_hash_regex, file_path[s])
         IN IF g # None
            THEN ret'.val = g /\ jobdirs' = jobdirs
            ELSE ret'.val \notin jobdirs /\ jobdirs' = jobdirs \cup {ret'.val}]_vars

(* ------------------------------------------------------------------ *)
(* Report generation and sandbox submission                           *)
(* ------------------------------------------------------------------ *)
\* Result.name
ResultName(r) ==
  CASE r = unchecked -> "unchecked"
    [] r = clean -> "clean"
    [] r = suspicious -> "suspicious"
    [] r = malicious -> "malicious"
    [] OTHER -> "failed"

\* line 268-277: the messages of report(), one per verdict and the final one
ReportLines(s, rs, res) ==
  [i \in 1..(Len(rs) + 1) |->
     IF i <= Len(rs)
     THEN <<"Datei", Basename(file_path[s]), ResultName(rs[i].result), rs[i].reason>>
     ELSE <<"wurde eingestuft", Basename(file_path[s]), ResultName(res)>>]

\* __send_message for each message in turn; oks[i] tells whether send number i works
RECURSIVE SendAll(_, _, _, _, _)
SendAll(tx, k, msgs, oks, i) ==
  IF i > Len(msgs) THEN tx
  ELSE SendAll(SendMessage(tx, k, msgs[i], oks[i]), k, msgs, oks, i + 1)

RECURSIVE LostAll(_, _, _, _)
LostAll(lost, k, oks, i) ==
  IF i > Len(oks) THEN lost
  ELSE LostAll(SendLost(lost, k, oks[i]), k, oks, i + 1)

\* outcomes of the sends of one call: without a transport nothing is sent
SendOutcomes(k, n) ==
  IF k = None THEN {[i \in 1..n |-> TRUE]} ELSE [1..n -> BOOLEAN]

\* report() in which a failed send raises IOError to the caller: the line
\* whose send failed is the last one appended
Report_sendRaises(s) ==
  /\ constructed[s]
  /\ nCalls < MaxCalls
  /\ Called
  /\ IF has_attr(attributes[s], "rule_results")
     THEN LET rs == attributes[s]["rule_results"]
              r == DetermineLoop(rs, 1, result[s], reason[s])
              lines == ReportLines(s, rs, r.result)
          IN /\ result' = [result EXCEPT ![s] = r.result]
             /\ reason' = [reason EXCEPT ![s] = r.reason]
             /\ \E oks \in SendOutcomes(socket[s], Len(lines)) :
                  LET bad == {i \in 1..Len(lines) : ~oks[i] \/ (socket[s] # None /\ sockClosed[socket[s]])}
                      upto == IF bad = {} THEN Len(lines) ELSE CHOOSE i \in bad : \A j \in bad : i <= j
                  IN /\ report' = [report EXCEPT ![s] = @ \o SubSeq(lines, 1, upto)]
                     /\ sent' = SendAll(sent, socket[s], SubSeq(lines, 1, upto), oks, 1)
                     /\ sendFailed' = LostAll(sendFailed, socket[s], SubSeq(oks, 1, upto), 1)
                     /\ ret' = MkRet("report", s, None, None, TRUE,
                                     IF socket[s] # None /\ bad # {} THEN "IOError" ELSE None, FALSE)
     ELSE /\ ret' = MkRet("report", s, None, None, TRUE, "KeyError", FALSE)
          /\ UNCHANGED <<result, reason, report, sent, sendFailed>>
  /\ UNCHANGED <<constructed, socket, has_cmap, keep_mail_data, job_id, attributes, wd, submit_path, initialized>>
  /\ UNCHANGED <<connection_map, sockClosed, closeCalls, fsVars, envVars, computed, ipc, rpc, initCalls>>

\* report() that takes a missing verdict list for an empty one
Report_defaultEmpty(s) ==
  /\ constructed[s]
  /\ nCalls < MaxCalls
  /\ Called
  /\ LET rs == IF has_attr(attributes[s], "rule_results")
               THEN attributes[s]["rule_results"] ELSE << >>
         r == DetermineLoop(rs, 1, result[s], reason[s])
         lines == ReportLines(s, rs, r.result)
     IN /\ result' = [result EXCEPT ![s] = r.result]
        /\ reason' = [reason EXCEPT ![s] = r.reason]
        /\ report' = [report EXCEPT ![s] = @ \o lines]
        /\ \E oks \in SendOutcomes(socket[s], Len(lines)) :
             /\ sent' = SendAll(sent, socket[s], lines, oks, 1)
             /\ sendFailed' = LostAll(sendFailed, socket[s], oks, 1)
        /\ ret' = MkRet("report", s, None, None, TRUE, None, FALSE)
  /\ UNCHANGED <<constructed, socket, has_cmap, keep_mail_data, job_id, attributes, wd, submit_path, initialized>>
  /\ UNCHANGED <<connection_map, sockClosed, closeCalls, fsVars, envVars, computed, ipc, rpc, initCalls>>

\* Sample.report
Report(s) ==
  /\ constructed[s]
  /\ nCalls < MaxCalls
  /\ Called
  /\ IF has_attr(attributes[s], "rule_results")
     THEN LET rs == attributes[s]["rule_results"]
              r == DetermineLoop(rs, 1, result[s], reason[s])
              lines == ReportLines(s, rs, r.result)
          IN /\ result' = [result EXCEPT ![s] = r.result]
             /\ reason' = [reason EXCEPT ![s] = r.reason]
             /\ report' = [report EXCEPT ![s] = @ \o lines]
             /\ \E oks \in SendOutcomes(socket[s], Len(lines)) :
                  /\ sent' = SendAll(sent, socket[s], lines, oks, 1)
                  /\ sendFailed' = LostAll(sendFailed, socket[s], oks, 1)
             /\ ret' = MkRet("report", s, None, None, TRUE, None, FALSE)
     ELSE /\ ret' = MkRet("report", s, None, None, TRUE, "KeyError", FALSE)
          /\ UNCHANGED <<result, reason, report, sent, sendFailed>>
  /\ UNCHANGED <<constructed, socket, has_cmap, keep_mail_data, job_id, attributes, wd, submit_path, initialized>>
  /\ UNCHANGED <<connection_map, sockClosed, closeCalls, fsVars, envVars, computed, ipc, rpc, initCalls>>

\* submit_to_cuckoo that catches the refusal and logs it to the report
SubmitToCuckoo_swallow(s) ==
  /\ constructed[s]
  /\ nCalls < MaxCalls
  /\ Called
  /\ \E accepted \in BOOLEAN :
       LET sha == sha256sum(s, attributes[s], fileContent[s])
           id == IF accepted THEN nextJob ELSE job_id[s]
           message == <<"an Cuckoo gegeben", Basename(file_path[s]), ToString(id),
                        ResultName(result[s]), sha.val>>
       IN /\ cuckooJobs' = IF accepted
                           THEN Append(cuckooJobs, [sample |-> s, path |-> submit_path[s], id |-> nextJob])
                           ELSE cuckooJobs
          /\ nextJob' = IF accepted THEN nextJob + 1 ELSE nextJob
          /\ job_id' = [job_id EXCEPT ![s] = id]
          /\ attributes' = [attributes EXCEPT ![s] = sha.attrs]
          /\ computed' = Bump(computed, s, "sha256sum", sha)
          /\ report' = [report EXCEPT ![s] = Append(@, message)]
          /\ ret' = MkRet("submit_to_cuckoo", s, None, id, TRUE, None, FALSE)
  /\ UNCHANGED <<constructed, socket, has_cmap, keep_mail_data, wd, submit_path, initialized, result, reason>>
  /\ UNCHANGED <<connection_map, sockVars, fsVars, fileContent, job_hash_regex, ipc, rpc, initCalls>>

\* Sample.submit_to_cuckoo: the sandbox accepts the submission and returns a
\* new job identifier, or refuses it with CuckooAnalysisFailedException
SubmitToCuckoo(s) ==
  /\ constructed[s]
  /\ nCalls < MaxCalls
  /\ Called
  /\ \E accepted \in BOOLEAN :
       IF accepted
       THEN LET sha == sha256sum(s, attributes[s], fileContent[s])
                message == <<"an Cuckoo gegeben", Basename(file_path[s]), ToString(nextJob),
                             ResultName(result[s]), sha.val>>
            IN /\ cuckooJobs' = Append(cuckooJobs, [sample |-> s, path |-> submit_path[s], id |-> nextJob])
               /\ nextJob' = nextJob + 1
               /\ job_id' = [job_id EXCEPT ![s] = nextJob]
               /\ attributes' = [attributes EXCEPT ![s] = sha.attrs]
               /\ computed' = Bump(computed, s, "sha256sum", sha)
               /\ report' = [report EXCEPT ![s] = Append(@, message)]
               /\ ret' = MkRet("submit_to_cuckoo", s, None, nextJob, TRUE, None, FALSE)
       ELSE /\ ret' = MkRet("submit_to_cuckoo", s, None, None, TRUE, "CuckooAnalysisFailedException", FALSE)
            /\ UNCHANGED <<cuckooJobs, nextJob, job_id, attributes, computed, report>>
  /\ UNCHANGED <<constructed, socket, has_cmap, keep_mail_data, wd, submit_path, initialized, result, reason>>
  /\ UNCHANGED <<connection_map, sockVars, fsVars, fileContent, job_hash_regex, ipc, rpc, initCalls>>

\* the Sample that is reported on, and the verdicts its rules may give
ReportSamples == {"s1"}
ReportVerdicts ==
  { [result |-> clean, reason |-> "reasonA"],
    [result |-> malicious, reason |-> "reasonA"],
    [result |-> malicious, reason |-> "reasonB"] }

ReportConstruct ==
  \E s \in ReportSamples, sock \in Sockets \cup {None} :
     Construct(s, TRUE, sock, FALSE, None, None)

ReportAddRuleResult == \E s \in ReportSamples, res \in ReportVerdicts : AddRuleResult(s, res)

ReportDetermineResult == \E s \in ReportSamples : nCalls < MaxReportCalls /\ DetermineResult(s)

DoReport == \E s \in ReportSamples : nCalls < MaxReportCalls /\ Report(s)

NextReport ==
  \/ ReportConstruct
  \/ ReportAddRuleResult
  \/ ReportDetermineResult
  \/ DoReport

SpecReport == Init /\ [][NextReport]_vars

(* ------------------------------------------------------------------ *)
(* Specification of the report stream: a Sample is created,           *)
(* initialized, submitted to the sandbox and reported on.             *)
(* ------------------------------------------------------------------ *)
StreamVerdicts == { [result |-> malicious, reason |-> "reasonA"] }

StreamConstruct ==
  \E s \in ReportSamples, sock \in Sockets \cup {None}, n \in {None, "a.txt"} :
     Construct(s, TRUE, sock, FALSE, n, None)

StreamInitCheck == \E s \in ReportSamples : InitCheck("w1", s)

StreamInitFs == \E s \in ReportSamples : InitFs("w1", s)

StreamInitReport == \E s \in ReportSamples : InitReport("w1", s)

StreamAddRuleResult == \E s \in ReportSamples, res \in StreamVerdicts : AddRuleResult(s, res)

StreamReport == \E s \in ReportSamples : nCalls < MaxReportCalls /\ Report(s)

DoSubmitToCuckoo == \E s \in ReportSamples : nCalls < MaxReportCalls /\ SubmitToCuckoo(s)

NextStream ==
  \/ StreamConstruct
  \/ StreamInitCheck
  \/ StreamInitFs
  \/ StreamInitReport
  \/ StreamAddRuleResult
  \/ StreamReport
  \/ DoSubmitToCuckoo

SpecStream == Init /\ [][NextStream]_vars

\* the lines init() emits for a Sample whose attributes are a
InitLines(s, a) ==
  <<<<"wird analysiert", Basename(file_path[s]), sha256sum(s, a, fileContent[s]).val>>>>
  \o (IF has_attr(a, "meta_info_name_declared")
      THEN <<<<"meta info: name_declared", a["meta_info_name_declared"]>>>> ELSE << >>)
  \o (IF has_attr(a, "meta_info_type_declared")
      THEN <<<<"meta info: type_declared", a["meta_info_type_declared"]>>>> ELSE << >>)

\* a worker completes the reporting part of init() on s
InitReportStep(s) == \E w \in Workers : ipc[s][w] = "report" /\ ipc'[s][w] = "idle"

\* C12: a transport send failure while a report line is emitted, in init or
\* in report, never raises to the caller, and the report log holds that line
\* and every line emitted after it: the lines a call appends to the log are the
\* same whether the transport works, fails or is absent.
C12_SendFailureHarmless ==
  [][\A s \in Samples :
       /\ (IsCall("report", s) /\ has_attr(attributes[s], "rule_results")) =>
            /\ ret'.exc = None
            /\ report'[s] = report[s] \o ReportLines(s, attributes[s]["rule_results"], result'[s])
       /\ InitReportStep(s) =>
            report'[s] = report[s] \o InitLines(s, attributes[s])]_vars

\* report() returned normally with every line in the log although the
\* transport delivered none of them
C12_Witness ==
  \E s \in Samples :
    /\ ret.op = "report" /\ ret.sample = s /\ ret.exc = None
    /\ socket[s] = "sock1"
    /\ sendFailed["sock1"]
    /\ sent["sock1"] = << >>
    /\ initialized[s]
    /\ Len(report[s]) >= 3

\* the job identifier the Sample holds is that of its latest accepted submission
JobIdIsLatest(jid, jobs) ==
  \A s \in Samples :
    LET mine == {i \in 1..Len(jobs) : jobs[i].sample = s}
    IN IF mine = {} THEN jid[s] = -1
       ELSE jid[s] = jobs[CHOOSE i \in mine : \A j \in mine : j <= i].id

\* C13: when the sandbox refuses a submission, submit_to_cuckoo propagates
\* the failure, the job id keeps its value and no line is appended to the
\* report; in every state the job id is unset (-1) unless a submission of the
\* Sample was accepted, and then it is the identifier of the latest accepted one.
C13_SubmitFailure ==
  /\ JobIdIsLatest(job_id, cuckooJobs)
  /\ [][/\ JobIdIsLatest(job_id', cuckooJobs')
        /\ \A s \in Samples :
             (IsCall("submit_to_cuckoo", s) /\ cuckooJobs' = cuckooJobs) =>
               /\ ret'.exc = "CuckooAnalysisFailedException"
               /\ job_id'[s] = job_id[s]
               /\ report'[s] = report[s]]_vars

\* a refused submission after an accepted one: the job id of the accepted one is kept
C13_Witness ==
  \E s \in Samples :
    /\ ret.op = "submit_to_cuckoo" /\ ret.sample = s
    /\ ret.exc = "CuckooAnalysisFailedException"
    /\ Len(cuckooJobs) = 1
    /\ job_id[s] = 1
    /\ Len(report[s]) = 1

\* the lines the transport of s delivered
SentOf(s) == IF socket[s] = None THEN << >> ELSE sent[socket[s]]

\* s has a transport of its own, which lost no message handed to it
TransportSound(s) ==
  /\ socket[s] # None
  /\ ~sendFailed[socket[s]]
  /\ \A t \in Samples \ {s} : constructed[t] => socket[t] # socket[s]

\* the lines that are appended to the report log only: the metadata lines
\* of init (line 152-159) and the line of submit_to_cuckoo (line 396-398)
LogOnly(m) ==
  m[1] \in {"meta info: name_declared", "meta info: type_declared", "an Cuckoo gegeben"}

C15_TeardownFailuresSuppressed ==
  [][\A s \in Samples :
       /\ (rpc[s] = "cleanup" /\ rpc'[s] # "cleanup") => rpc'[s] = "close"
       /\ (rpc[s] = "close" /\ rpc'[s] # "close") =>
            /\ rpc'[s] = "done"
            /\ socket[s] # None => closeCalls'[socket[s]] = closeCalls[socket[s]] + 1]_vars

\* remove_from_connection_map returned although rmtree failed and close() failed
C15_Witness ==
  \E s \in Samples :
    /\ rpc[s] = "done"
    /\ s \in rmtreeFailed
    /\ wd[s] \in tmpdirs
    /\ closeCalls[socket[s]] >= 1
    /\ ~sockClosed[socket[s]]

\* the Samples that were attached to the connection k
AttachedTo(k) == {s \in Samples : constructed[s] /\ has_cmap[s] /\ socket[s] = k}

\* every Sample of the connection k has run remove_from_connection_map
AllDetached(r, k) == \A s \in AttachedTo(k) : r[s] = "done"

\* C16: once the last Sample of a connection has run
\* remove_from_connection_map, keep_mail_data being false and no directory
\* removal having failed, the transport has been closed and no working directory
\* made by init for a Sample of that connection exists any more.
C16_AllTempFilesCleaned ==
  [][\A k \in Sockets :
       (/\ ~AllDetached(rpc, k)
        /\ AllDetached(rpc', k)
        /\ \A s \in AttachedTo(k) : ~keep_mail_data[s] /\ s \notin rmtreeFailed') =>
          /\ closeCalls'[k] >= 1
          /\ \A s \in AttachedTo(k) : wd'[s] # None => wd'[s] \notin tmpdirs']_vars

(* ------------------------------------------------------------------ *)
(* Aggregation across calls                                           *)
(* ------------------------------------------------------------------ *)
\* the step is a call that aggregates the verdicts of s
Aggregates(s) == IsCall("determine_result", s) \/ IsCall("report", s)

\* the latest call aggregated the verdicts of s and no verdict was added since
JustAggregated(s) ==
  ret.op \in {"determine_result", "report"} /\ ret.sample = s /\ ret.exc = None

\* C17: determine_result is idempotent on an unchanged verdict sequence:
\* a further call, directly or through report(), with no add_rule_result in
\* between leaves result and reason as the call before produced them.
C17_DetermineIdempotent ==
  [][\A s \in Samples :
       (JustAggregated(s) /\ Aggregates(s)) =>
         result'[s] = result[s] /\ reason'[s] = reason[s]]_vars

\* report() ran twice on the verdicts [malicious/reasonA, malicious/reasonB]:
\* the reason is still that of the last of the equal verdicts
C17_Witness ==
  \E s \in Samples :
    /\ ret.op = "report" /\ ret.sample = s
    /\ nCalls = 2
    /\ has_attr(attributes[s], "rule_results")
    /\ attributes[s]["rule_results"] =
         << [result |-> malicious, reason |-> "reasonA"],
            [result |-> malicious, reason |-> "reasonB"] >>
    /\ Len(report[s]) = 6
    /\ result[s] = malicious
    /\ reason[s] = "reasonB"

\* C18: severity aggregation is monotonic: result starts at unchecked,
\* never decreases from one state to the next, and changes only in a step of
\* determine_result, called directly or through report().
C18_MonotonicSeverity ==
  /\ \A s \in Samples : result[s] = unchecked
  /\ [][\A s \in Samples :
          /\ result'[s] >= result[s]
          /\ result'[s] # result[s] => Aggregates(s)]_vars

\* malicious was reported, a clean verdict was added, and determine_result
\* left the result at malicious
C18_Witness ==
  \E s \in Samples :
    /\ ret.op = "determine_result" /\ ret.sample = s
    /\ has_attr(attributes[s], "rule_results")
    /\ attributes[s]["rule_results"] =
         << [result |-> malicious, reason |-> "reasonA"],
            [result |-> clean, reason |-> "reasonA"] >>
    /\ Len(report[s]) = 2
    /\ result[s] = malicious

\* C20: report() on a Sample that was never given a verdict fails with
\* the KeyError of get_attr('rule_results'); the report log, result and reason
\* are unchanged and nothing is sent to the transport.
C20_ReportWithoutVerdicts ==
  [][\A s \in Samples :
       (IsCall("report", s) /\ ~has_attr(attributes[s], "rule_results")) =>
         /\ ret'.exc = "KeyError"
         /\ report' = report
         /\ result' = result
         /\ reason' = reason
         /\ sent' = sent]_vars

\* report() failed on a Sample with a transport and without verdicts
C20_Witness ==
  \E s \in Samples :
    /\ ret.op = "report" /\ ret.sample = s
    /\ ret.exc = "KeyError"
    /\ socket[s] = "sock1"
    /\ ~has_attr(attributes[s], "rule_results")
    /\ report[s] = << >>
    /\ sent["sock1"] = << >>
    /\ result[s] = unchecked

(* ------------------------------------------------------------------ *)
(* Paths of an initialized Sample                                     *)
(* ------------------------------------------------------------------ *)
\* what init() leaves behind for s: without a file extension no working
\* directory and the path itself, otherwise one working directory and in it
\* the symlink <sha256>.<ext> to the path
InitializedPaths(s) ==
  initialized[s] =>
    LET ext == file_extension(s, attributes[s]).val
        sha == sha256sum(s, attributes[s], fileContent[s]).val
    IN IF ext = ""
       THEN /\ mkdtempCount[s] = 0
            /\ wd[s] = None
            /\ submit_path[s] = file_path[s]
       ELSE /\ mkdtempCount[s] = 1
            /\ wd[s] # None
            /\ submit_path[s] = wd[s] \o "/" \o sha \o "." \o ext
            /\ <<submit_path[s], file_path[s]>> \in symlinks

\* the sandbox accepted a submission of s in this step
Submitted(s) == IsCall("submit_to_cuckoo", s) /\ Len(cuckooJobs') = Len(cuckooJobs) + 1

\* C19: in every state where initialized is true, a Sample without file
\* extension has no working directory and submit_path equal to its path, and a
\* Sample with one had exactly one working directory created and has
\* submit_path wd/<sha256>.<ext>, a symlink to its path; submit_to_cuckoo hands
\* this submit_path to the sandbox.
C19_InitializedPaths ==
  /\ \A s \in Samples : InitializedPaths(s)
  /\ [][\A s \in Samples :
          /\ InitializedPaths(s)'
          /\ (initialized[s] /\ Submitted(s)) =>
               cuckooJobs'[Len(cuckooJobs')].path = submit_path[s]]_vars

====
